---- MODULE Spec2Model ----
(***************************************************************************)
(* The peer connection signaling orchestrator of                           *)
(* src/src/hooks/useWebRTCPeer.ts (the useWebRTCPeer hook).                *)
(*                                                                         *)
(* One orchestrator instance per node.  Its state is the hook's refs and   *)
(* React state; the native RTCPeerConnection objects it constructs are     *)
(* kept in a per-node heap (pcs), because the hook's Map can forget an     *)
(* object that is still alive.  Every native asynchronous method           *)
(* (createOffer, setLocalDescription, setRemoteDescription,                *)
(* addIceCandidate, createAnswer) is an entry of the connection's          *)
(* operations chain (W3C WebRTC 4.4.1.3) and settles in a later step; an   *)
(* async function of the hook runs from one await to the next in one       *)
(* step, as JavaScript's run-to-completion does.                           *)
(***************************************************************************)
EXTENDS Integers, Sequences, FiniteSets, Bags, TLC

\* ------------------------------------------------------------------ bounds
MaxPCs == 2        \* RTCPeerConnection objects one orchestrator constructs
MaxIce == 2        \* ice-candidate messages one orchestrator receives
MaxChain == 2      \* un-awaited native operations queued on one connection
MaxFaults == 1     \* native operations that error although their state allows them
MaxCleanups == 2   \* cleanup() calls of one orchestrator
MaxStreams == 2    \* setLocalStream() calls of one orchestrator
MaxEvents == 2     \* native events (candidate, connection state, track) of one orchestrator
EvMaxIce == 1      \* MaxIce, MaxChain and MaxCleanups of the runs with native events
EvMaxChain == 1
EvMaxCleanups == 1
MaxIgnored == 1    \* ignored messages of each kind that are counted
PairMaxPCs == 2    \* connections of each orchestrator of the two-orchestrator runs
PairMaxIce == 2    \* candidates each of them is delivered
PairMaxEvents == 2 \* candidates each of them gathers

\* ------------------------------------------------------------- identifiers
Nodes == {"H", "V1"}            \* orchestrator instances (their peerId)
Ids == {"H", "V1", "V2"}        \* RemotePeerIdentifiers seen on the channel
NoTo == "none"                  \* SignalingMessage.to absent (line 16)
NoStream == "null"
Streams == {"S1", "S2"}
NoTrack == "null"

\* MediaStream.getTracks(): S1 has one audio and one video track, S2 has two
\* video tracks and no audio.
Tracks(s) ==
  IF s = "S1" THEN << [id |-> "a1", kind |-> "audio"], [id |-> "v1", kind |-> "video"] >>
  ELSE IF s = "S2" THEN << [id |-> "v2", kind |-> "video"], [id |-> "w2", kind |-> "video"] >>
  ELSE << >>

PeerConnectionState == {"idle", "connecting", "connected", "disconnected", "failed"}

NoDesc == [type |-> "none", sdp |-> 0, re |-> 0]
NoCand == [uid |-> 0, from |-> "none", bad |-> FALSE, early |-> FALSE]

VARIABLES
  connectionState,   \* [Nodes -> PeerConnectionState]        useState, line 40
  remoteStream,      \* [Nodes -> {"null", "remote"}]          useState, line 41
  peerConnections,   \* [Nodes -> [Ids -> 0..MaxPCs]]          peerConnectionsRef, line 43 (0: no entry)
  pcs,               \* [Nodes -> Seq(connection record)]      the RTCPeerConnection objects constructed
  localStream,       \* [Nodes -> Streams \cup {NoStream}]     localStreamRef, line 44
  channel,           \* [Nodes -> BOOLEAN]                     channelRef.current # null, line 45
  pendingCandidates, \* [Nodes -> [Ids -> Seq(candidate)]]     pendingCandidatesRef, line 46
  sent,              \* [Nodes -> Bag(SignalingMessage)]       what channel.send was given
  unsubscribes,      \* [Nodes -> Nat]                         supabase.removeChannel calls
  cleanups,          \* [Nodes -> Nat]                         cleanup() calls
  streamCalls,       \* [Nodes -> Nat]                         setLocalStream() calls
  iceSeen,           \* [Nodes -> Nat]                         ice-candidate payload objects received
  faults,            \* [Nodes -> Nat]                         native errors injected
  events,            \* [Nodes -> Nat]                         native events fired (candidate, state, track)
  limit,             \* the bounds of the run, fixed by the initial state
  ignored,           \* [Nodes -> [self, other, answer : Nat]] messages ignored (lines 262, 266, 219)
  inbox              \* [Nodes -> Bag(SignalingMessage)]       broadcasts of the other node not yet delivered

vars == << connectionState, remoteStream, peerConnections, pcs, localStream, channel,
           pendingCandidates, sent, unsubscribes, cleanups, streamCalls, iceSeen, faults,
           events, limit, ignored, inbox >>

\* ------------------------------------------------------------------ helpers
Range(s) == { s[k] : k \in DOMAIN s }

RECURSIVE SeqSum(_)
SeqSum(s) == IF s = << >> THEN 0 ELSE Head(s) + SeqSum(Tail(s))

\* The entries of a Map: the keys that hold a connection.
TableKeys(n) == { p \in Ids : peerConnections[n][p] # 0 }
\* The connection objects the Map of node n holds.
TablePCs(n) == { peerConnections[n][p] : p \in TableKeys(n) }

\* channelRef.current.send({type: 'broadcast', event: 'signaling', payload}):
\* the room's channel takes the message for every other node.
Publish(n, m) ==
  /\ sent' = [sent EXCEPT ![n] = @ (+) SetToBag({m})]
  /\ inbox' = [k \in Nodes |-> IF k # n THEN inbox[k] (+) SetToBag({m}) ELSE inbox[k]]

Msg(t, f, to, sdp, re, bad) ==
  [type |-> t, from |-> f, to |-> to, sdp |-> sdp, re |-> re, bad |-> bad]

\* A native operation queued on a connection's operations chain.
Op(name, desc, cand, aw) == [op |-> name, desc |-> desc, cand |-> cand, aw |-> aw]

\* ------------------------------------------------- RTCRtpSender bookkeeping
\* pc.addTrack(track, stream): reuses a sender whose track is null, whose kind
\* matches and that has never been used to send; otherwise adds a sender.
RECURSIVE FirstReusable(_, _, _)
FirstReusable(senders, kind, k) ==
  IF k > Len(senders) THEN 0
  ELSE IF senders[k].track = NoTrack /\ senders[k].kind = kind /\ senders[k].st # "used"
       THEN k
       ELSE FirstReusable(senders, kind, k + 1)

AddTrack(senders, track) ==
  LET k == FirstReusable(senders, track.kind, 1) IN
  IF k # 0 THEN [senders EXCEPT ![k].track = track.id]
  ELSE Append(senders, [track |-> track.id, kind |-> track.kind, st |-> "new"])

RECURSIVE AddTracks(_, _)
AddTracks(senders, tracks) ==
  IF tracks = << >> THEN senders
  ELSE AddTracks(AddTrack(senders, Head(tracks)), Tail(tracks))

\* senders.find(s => s.track?.kind === track.kind)
RECURSIVE FindSender(_, _, _)
FindSender(senders, kind, k) ==
  IF k > Len(senders) THEN 0
  ELSE IF senders[k].track # NoTrack /\ senders[k].kind = kind THEN k
       ELSE FindSender(senders, kind, k + 1)

\* ReconcileTrack that always calls pc.addTrack.
ReconcileTrackAlwaysAdds(senders, track) == AddTrack(senders, track)

\* lines 55-65: one track of the new stream against one connection
ReconcileTrack(senders, track) ==
  LET k == FindSender(senders, track.kind, 1) IN
  IF k # 0 THEN [senders EXCEPT ![k].track = track.id]     \* existingSender.replaceTrack(track)
  ELSE AddTrack(senders, track)                            \* pc.addTrack(track, stream)

RECURSIVE ReconcileTracks(_, _)
ReconcileTracks(senders, tracks) ==
  IF tracks = << >> THEN senders
  ELSE ReconcileTracks(ReconcileTrack(senders, Head(tracks)), Tail(tracks))

\* lines 68-72: pc.removeTrack(sender) for every sender
RemoveTracks(senders) == [k \in DOMAIN senders |-> [senders[k] EXCEPT !.track = NoTrack]]

\* lines 53-74: the body of the forEach for one connection
Reconcile(senders, stream) ==
  IF stream # NoStream THEN ReconcileTracks(senders, Tracks(stream))
  ELSE RemoveTracks(senders)

\* ------------------------------------------------------------------- Init
\* The state after the hook has mounted: the effect of lines 252-297 has
\* subscribed the channel, nothing else has happened.
Start ==
  /\ connectionState = [n \in Nodes |-> "idle"]
  /\ remoteStream = [n \in Nodes |-> "null"]
  /\ peerConnections = [n \in Nodes |-> [p \in Ids |-> 0]]
  /\ pcs = [n \in Nodes |-> << >>]
  /\ localStream = [n \in Nodes |-> NoStream]
  /\ channel = [n \in Nodes |-> TRUE]
  /\ pendingCandidates = [n \in Nodes |-> [p \in Ids |-> << >>]]
  /\ sent = [n \in Nodes |-> EmptyBag]
  /\ unsubscribes = [n \in Nodes |-> 0]
  /\ cleanups = [n \in Nodes |-> 0]
  /\ streamCalls = [n \in Nodes |-> 0]
  /\ iceSeen = [n \in Nodes |-> 0]
  /\ faults = [n \in Nodes |-> 0]
  /\ events = [n \in Nodes |-> 0]
  /\ ignored = [n \in Nodes |-> [self |-> 0, other |-> 0, answer |-> 0]]
  /\ inbox = [n \in Nodes |-> EmptyBag]

\* ------------------------------------------- the native RTCPeerConnection
\* Whether the connection's state lets the operation succeed (otherwise the
\* promise rejects: InvalidStateError, or OperationError for a candidate that
\* does not parse).
NativeAllows(pc, o) ==
  CASE o.op = "createOffer" -> TRUE
    [] o.op = "setLocalDescription" ->
         IF o.desc.type = "offer"
         THEN pc.signalingState \in {"stable", "have-local-offer"}
         ELSE pc.signalingState = "have-remote-offer"
    [] o.op = "setRemoteDescription" ->
         IF o.desc.type = "offer"
         THEN pc.signalingState \in {"stable", "have-remote-offer"}
         ELSE pc.signalingState = "have-local-offer"
    [] o.op = "addIceCandidate" -> pc.remoteDescription # NoDesc /\ ~o.cand.bad
    [] o.op = "createAnswer" -> pc.signalingState = "have-remote-offer"

\* A sender with a track is part of the description being created; once the
\* negotiation completes it has been used to send.
MarkSenders(senders, from, to) ==
  [k \in DOMAIN senders |->
     IF senders[k].st = from /\ (from = "offered" \/ senders[k].track # NoTrack)
     THEN [senders[k] EXCEPT !.st = to] ELSE senders[k]]

\* The connection after the operation has succeeded (its chain untouched).
NativeApply(pc, o, i) ==
  CASE o.op = "createOffer" ->
         [pc EXCEPT !.senders = MarkSenders(@, "new", "offered")]
    [] o.op = "createAnswer" ->
         [pc EXCEPT !.senders = MarkSenders(@, "new", "offered")]
    [] o.op = "setLocalDescription" ->
         IF o.desc.type = "offer"
         THEN [pc EXCEPT !.signalingState = "have-local-offer", !.localDescription = o.desc]
         ELSE [pc EXCEPT !.signalingState = "stable", !.localDescription = o.desc,
                         !.senders = MarkSenders(@, "offered", "used")]
    [] o.op = "setRemoteDescription" ->
         IF o.desc.type = "offer"
         THEN [pc EXCEPT !.signalingState = "have-remote-offer", !.remoteDescription = o.desc]
         ELSE [pc EXCEPT !.signalingState = "stable", !.remoteDescription = o.desc,
                         !.senders = MarkSenders(@, "offered", "used")]
    [] o.op = "addIceCandidate" ->
         [pc EXCEPT !.applied = Append(@, o.cand)]

\* -------------------------------------------------- createPeerConnection
\* new RTCPeerConnection(...), lines 78-134: the object as constructed, with
\* the local stream's tracks added.  role and pos are the async function that
\* constructed it and the await that function is suspended at.
NewPC(p, role, stream) ==
  [ peer |-> p, role |-> role, pos |-> "start",
    closed |-> FALSE, signalingState |-> "stable",
    localDescription |-> NoDesc, remoteDescription |-> NoDesc,
    applied |-> << >>, chain |-> << >>,
    arr |-> << >>, idx |-> 0, linked |-> FALSE,
    senders |-> AddTracks(<< >>, Tracks(stream)),
    conn |-> "new", gathered |-> FALSE ]

\* lines 77-138 with the first native call of the caller queued: the new
\* object is appended to the heap and the Map entry for remotePeerId is
\* overwritten (line 136).  The object the entry held before is left as it is.
CreatePeerConnection(n, p, role, first) ==
  LET pc == [NewPC(p, role, localStream[n]) EXCEPT !.chain = << first >>, !.pos = first.op] IN
  /\ pcs' = [pcs EXCEPT ![n] = Append(@, pc)]
  /\ peerConnections' = [peerConnections EXCEPT ![n][p] = Len(pcs[n]) + 1]

\* ------------------------------------------------------------ createOffer
\* lines 140-147: up to the first await.
CreateOffer(n, v) ==
  /\ Len(pcs[n]) < limit.pcs
  /\ CreatePeerConnection(n, v, "initiator", Op("createOffer", NoDesc, NoCand, TRUE))
  /\ connectionState' = [connectionState EXCEPT ![n] = "connecting"]
  /\ UNCHANGED << remoteStream, localStream, channel, pendingCandidates, sent,
                  unsubscribes, cleanups, streamCalls, iceSeen, faults, events, limit, ignored, inbox >>

\* lines 147-149: pc.createOffer() has resolved; setLocalDescription is called.
CreateOfferResolved(n, i) ==
  /\ i \in DOMAIN pcs[n]
  /\ pcs[n][i].chain # << >>
  /\ Head(pcs[n][i].chain).op = "createOffer"
  /\ LET pc == pcs[n][i]
         done == NativeApply(pc, Head(pc.chain), i)
         offer == [type |-> "offer", sdp |-> i, re |-> 0]
     IN pcs' = [pcs EXCEPT ![n][i] =
                  [done EXCEPT !.chain = Append(Tail(pc.chain),
                                               Op("setLocalDescription", offer, NoCand, TRUE)),
                               !.pos = "setLocalDescription"]]
  /\ UNCHANGED << connectionState, remoteStream, peerConnections, localStream, channel,
                  pendingCandidates, sent, unsubscribes, cleanups, streamCalls, iceSeen,
                  faults, events, limit, ignored, inbox >>

\* OfferLocalSet with the offer published unaddressed (no `to`).
OfferLocalSetUnaddressed(n, i) ==
  /\ i \in DOMAIN pcs[n]
  /\ pcs[n][i].chain # << >>
  /\ pcs[n][i].role = "initiator"
  /\ Head(pcs[n][i].chain).op = "setLocalDescription"
  /\ NativeAllows(pcs[n][i], Head(pcs[n][i].chain))
  /\ LET pc == pcs[n][i]
         o == Head(pc.chain)
         done == NativeApply(pc, o, i)
     IN /\ pcs' = [pcs EXCEPT ![n][i] =
                     [done EXCEPT !.chain = Tail(pc.chain),
                                  !.pos = IF channel[n] THEN "done" ELSE "unsent"]]
        /\ IF channel[n]
           THEN Publish(n, Msg("offer", n, NoTo, o.desc.sdp, 0, FALSE))
           ELSE UNCHANGED << sent, inbox >>
  /\ UNCHANGED << connectionState, remoteStream, peerConnections, localStream, channel,
                  pendingCandidates, unsubscribes, cleanups, streamCalls, iceSeen,
                  faults, events, limit, ignored >>

\* lines 149-166: setLocalDescription(offer) has resolved; the offer is
\* published when channelRef.current is set, otherwise only logged.
OfferLocalSet(n, i) ==
  /\ i \in DOMAIN pcs[n]
  /\ pcs[n][i].chain # << >>
  /\ pcs[n][i].role = "initiator"
  /\ Head(pcs[n][i].chain).op = "setLocalDescription"
  /\ NativeAllows(pcs[n][i], Head(pcs[n][i].chain))
  /\ LET pc == pcs[n][i]
         o == Head(pc.chain)
         done == NativeApply(pc, o, i)
     IN /\ pcs' = [pcs EXCEPT ![n][i] =
                     [done EXCEPT !.chain = Tail(pc.chain),
                                  !.pos = IF channel[n] THEN "done" ELSE "unsent"]]
        /\ IF channel[n]
           THEN Publish(n, Msg("offer", n, pc.peer, o.desc.sdp, 0, FALSE))
           ELSE UNCHANGED << sent, inbox >>
  /\ UNCHANGED << connectionState, remoteStream, peerConnections, localStream, channel,
                  pendingCandidates, unsubscribes, cleanups, streamCalls, iceSeen,
                  faults, events, limit, ignored >>

\* ------------------------------------------------------------ handleOffer
\* HandleOffer with an offer of a host the Map already holds a connection for
\* left unanswered.
HandleOfferKeepsSession(n, offer, hostId) ==
  IF peerConnections[n][hostId] # 0
  THEN UNCHANGED << connectionState, remoteStream, peerConnections, pcs, localStream,
                    channel, pendingCandidates, sent, unsubscribes, cleanups,
                    streamCalls, iceSeen, faults, events, limit, ignored >>
  ELSE /\ Len(pcs[n]) < limit.pcs
       /\ CreatePeerConnection(n, hostId, "responder", Op("setRemoteDescription", offer, NoCand, TRUE))
       /\ connectionState' = [connectionState EXCEPT ![n] = "connecting"]
       /\ UNCHANGED << remoteStream, localStream, channel, pendingCandidates, sent,
                       unsubscribes, cleanups, streamCalls, iceSeen, faults, events,
                       limit, ignored >>

\* lines 173-178: up to the first await.
HandleOffer(n, offer, hostId) ==
  /\ Len(pcs[n]) < limit.pcs
  /\ CreatePeerConnection(n, hostId, "responder", Op("setRemoteDescription", offer, NoCand, TRUE))
  /\ connectionState' = [connectionState EXCEPT ![n] = "connecting"]
  /\ UNCHANGED << remoteStream, localStream, channel, pendingCandidates, sent,
                  unsubscribes, cleanups, streamCalls, iceSeen, faults, events, limit, ignored >>

\* pendingCandidatesRef.current.delete(p) / .clear(): an async function that
\* still iterates the array the entry held keeps the array, which is no longer
\* the entry's.
Unlink(seq, ps) ==
  [k \in DOMAIN seq |->
     IF seq[k].peer \in ps THEN [seq[k] EXCEPT !.linked = FALSE] ELSE seq[k]]

\* FlushNext with the array walked from its end.
FlushNextReversed(pc) ==
  IF pc.idx < Len(pc.arr)
  THEN [pc |-> [pc EXCEPT !.idx = @ + 1,
                          !.chain = Append(@, Op("addIceCandidate", NoDesc,
                                                 pc.arr[Len(pc.arr) - pc.idx], TRUE)),
                          !.pos = "addIceCandidate"],
        del |-> FALSE]
  ELSE [pc |-> [pc EXCEPT !.arr = << >>, !.idx = 0, !.linked = FALSE,
                          !.chain = Append(@, Op("createAnswer", NoDesc, NoCand, TRUE)),
                          !.pos = "createAnswer"],
        del |-> TRUE]

\* lines 182-187, one turn of `for (const candidate of pending)`: either the
\* next element is handed to addIceCandidate, or the loop is over, the entry is
\* deleted (del) and createAnswer is called.  The iterator reads the array's
\* length at each turn.
FlushNext(pc) ==
  IF pc.idx < Len(pc.arr)
  THEN [pc |-> [pc EXCEPT !.idx = @ + 1,
                          !.chain = Append(@, Op("addIceCandidate", NoDesc, pc.arr[pc.idx + 1], TRUE)),
                          !.pos = "addIceCandidate"],
        del |-> FALSE]
  ELSE [pc |-> [pc EXCEPT !.arr = << >>, !.idx = 0, !.linked = FALSE,
                          !.chain = Append(@, Op("createAnswer", NoDesc, NoCand, TRUE)),
                          !.pos = "createAnswer"],
        del |-> TRUE]

\* The heap and the queue after connection i of node n has taken one turn of
\* the flush loop from the state pc.
FlushTurn(n, i, pc) ==
  LET r == FlushNext(pc) IN
  IF r.del
  THEN /\ pcs' = [pcs EXCEPT ![n] = [Unlink(pcs[n], {pc.peer}) EXCEPT ![i] = r.pc]]
       /\ pendingCandidates' = [pendingCandidates EXCEPT ![n][pc.peer] = << >>]
  ELSE /\ pcs' = [pcs EXCEPT ![n][i] = r.pc]
       /\ UNCHANGED pendingCandidates

\* lines 178-183: setRemoteDescription(offer) has resolved; the queue of the
\* host is read (the array itself, or a fresh one when there is no entry) and
\* the loop starts.
OfferRemoteSet(n, i) ==
  /\ i \in DOMAIN pcs[n]
  /\ pcs[n][i].chain # << >>
  /\ Head(pcs[n][i].chain).op = "setRemoteDescription"
  /\ Head(pcs[n][i].chain).aw
  /\ NativeAllows(pcs[n][i], Head(pcs[n][i].chain))
  /\ LET pc == pcs[n][i]
         done == NativeApply(pc, Head(pc.chain), i)
         q == pendingCandidates[n][pc.peer]
     IN FlushTurn(n, i, [done EXCEPT !.chain = Tail(pc.chain),
                                     !.arr = q, !.idx = 0, !.linked = (q # << >>)])
  /\ UNCHANGED << connectionState, remoteStream, peerConnections, localStream, channel,
                  sent, unsubscribes, cleanups, streamCalls, iceSeen, faults, events,
                  limit, ignored, inbox >>

\* lines 183-187: an awaited addIceCandidate of the loop has resolved.
FlushApplied(n, i) ==
  /\ i \in DOMAIN pcs[n]
  /\ pcs[n][i].chain # << >>
  /\ Head(pcs[n][i].chain).op = "addIceCandidate"
  /\ Head(pcs[n][i].chain).aw
  /\ NativeAllows(pcs[n][i], Head(pcs[n][i].chain))
  /\ LET pc == pcs[n][i]
         done == NativeApply(pc, Head(pc.chain), i)
     IN FlushTurn(n, i, [done EXCEPT !.chain = Tail(pc.chain)])
  /\ UNCHANGED << connectionState, remoteStream, peerConnections, localStream, channel,
                  sent, unsubscribes, cleanups, streamCalls, iceSeen, faults, events,
                  limit, ignored, inbox >>

\* lines 187-188: createAnswer() has resolved; setLocalDescription is called.
AnswerCreated(n, i) ==
  /\ i \in DOMAIN pcs[n]
  /\ pcs[n][i].chain # << >>
  /\ Head(pcs[n][i].chain).op = "createAnswer"
  /\ NativeAllows(pcs[n][i], Head(pcs[n][i].chain))
  /\ LET pc == pcs[n][i]
         done == NativeApply(pc, Head(pc.chain), i)
         answer == [type |-> "answer", sdp |-> i, re |-> pc.remoteDescription.sdp]
     IN pcs' = [pcs EXCEPT ![n][i] =
                  [done EXCEPT !.chain = Append(Tail(pc.chain),
                                               Op("setLocalDescription", answer, NoCand, TRUE)),
                               !.pos = "setLocalDescription"]]
  /\ UNCHANGED << connectionState, remoteStream, peerConnections, localStream, channel,
                  pendingCandidates, sent, unsubscribes, cleanups, streamCalls, iceSeen,
                  faults, events, limit, ignored, inbox >>

\* lines 188-201: setLocalDescription(answer) has resolved; the answer is
\* published when channelRef.current is set.
AnswerLocalSet(n, i) ==
  /\ i \in DOMAIN pcs[n]
  /\ pcs[n][i].chain # << >>
  /\ pcs[n][i].role = "responder"
  /\ Head(pcs[n][i].chain).op = "setLocalDescription"
  /\ NativeAllows(pcs[n][i], Head(pcs[n][i].chain))
  /\ LET pc == pcs[n][i]
         o == Head(pc.chain)
         done == NativeApply(pc, o, i)
     IN /\ pcs' = [pcs EXCEPT ![n][i] =
                     [done EXCEPT !.chain = Tail(pc.chain),
                                  !.pos = IF channel[n] THEN "done" ELSE "unsent"]]
        /\ IF channel[n]
           THEN Publish(n, Msg("answer", n, pc.peer, o.desc.sdp, o.desc.re, FALSE))
           ELSE UNCHANGED << sent, inbox >>
  /\ UNCHANGED << connectionState, remoteStream, peerConnections, localStream, channel,
                  pendingCandidates, unsubscribes, cleanups, streamCalls, iceSeen,
                  faults, events, limit, ignored >>

\* AwaitRejected with a catch that only logs.
AwaitRejectedOnlyLogs(n, i) ==
  /\ i \in DOMAIN pcs[n]
  /\ pcs[n][i].chain # << >>
  /\ Head(pcs[n][i].chain).aw
  /\ \/ /\ ~NativeAllows(pcs[n][i], Head(pcs[n][i].chain))
        /\ UNCHANGED faults
     \/ /\ NativeAllows(pcs[n][i], Head(pcs[n][i].chain))
        /\ faults[n] < limit.faults
        /\ faults' = [faults EXCEPT ![n] = @ + 1]
  /\ pcs' = [pcs EXCEPT ![n][i] =
               [@ EXCEPT !.chain = Tail(@), !.pos = "failed",
                         !.arr = << >>, !.idx = 0, !.linked = FALSE]]
  /\ UNCHANGED << connectionState, remoteStream, peerConnections, localStream, channel,
                  pendingCandidates, sent, unsubscribes, cleanups, streamCalls, iceSeen,
                  events, limit, ignored, inbox >>

\* lines 167-170 and 202-205: an awaited native call has rejected, because the
\* connection's state forbids it or because the platform failed; the catch
\* sets the aggregate state and the function ends.
AwaitRejected(n, i) ==
  /\ i \in DOMAIN pcs[n]
  /\ pcs[n][i].chain # << >>
  /\ Head(pcs[n][i].chain).aw
  /\ \/ /\ ~NativeAllows(pcs[n][i], Head(pcs[n][i].chain))
        /\ UNCHANGED faults
     \/ /\ NativeAllows(pcs[n][i], Head(pcs[n][i].chain))
        /\ faults[n] < limit.faults
        /\ faults' = [faults EXCEPT ![n] = @ + 1]
  /\ pcs' = [pcs EXCEPT ![n][i] =
               [@ EXCEPT !.chain = Tail(@), !.pos = "failed",
                         !.arr = << >>, !.idx = 0, !.linked = FALSE]]
  /\ connectionState' = [connectionState EXCEPT ![n] = "failed"]
  /\ UNCHANGED << remoteStream, peerConnections, localStream, channel, pendingCandidates,
                  sent, unsubscribes, cleanups, streamCalls, iceSeen, events, limit, ignored, inbox >>

\* ----------------------------------------------------------- handleAnswer
\* lines 261-268 and 218-220: a message is logged as ignored and nothing else
\* is done.  The ignored messages are counted up to the run's bound, so that
\* they can be observed.
Ignore(n, why) ==
  /\ ignored' = [ignored EXCEPT ![n][why] = IF @ < limit.ignored THEN @ + 1 ELSE @]
  /\ UNCHANGED << connectionState, remoteStream, peerConnections, pcs, localStream,
                  channel, pendingCandidates, sent, unsubscribes, cleanups, streamCalls,
                  iceSeen, faults, events, limit >>

\* HandleAnswer with the guard of line 211 reduced to `pc`.
HandleAnswerAnyState(n, answer, viewerId) ==
  LET i == peerConnections[n][viewerId] IN
  IF i # 0
  THEN /\ Len(pcs[n][i].chain) < limit.chain
       /\ pcs' = [pcs EXCEPT ![n][i].chain =
                    Append(@, Op("setRemoteDescription", answer, NoCand, FALSE))]
       /\ UNCHANGED << connectionState, remoteStream, peerConnections, localStream,
                       channel, pendingCandidates, sent, unsubscribes, cleanups,
                       streamCalls, iceSeen, faults, events, limit, ignored >>
  ELSE Ignore(n, "answer")

\* lines 208-221.  setRemoteDescription is called and not awaited: the call
\* only queues the operation, signalingState changes when it settles.
HandleAnswer(n, answer, viewerId) ==
  LET i == peerConnections[n][viewerId] IN
  IF i # 0 /\ pcs[n][i].signalingState = "have-local-offer"
  THEN /\ Len(pcs[n][i].chain) < limit.chain
       /\ pcs' = [pcs EXCEPT ![n][i].chain =
                    Append(@, Op("setRemoteDescription", answer, NoCand, FALSE))]
       /\ UNCHANGED << connectionState, remoteStream, peerConnections, localStream,
                       channel, pendingCandidates, sent, unsubscribes, cleanups,
                       streamCalls, iceSeen, faults, events, limit, ignored >>
  ELSE Ignore(n, "answer")                                       \* line 219

\* The un-awaited setRemoteDescription(answer) of line 213 settles: applied
\* when the connection still has its local offer pending, rejected otherwise
\* (nothing observes the rejected promise).
AnswerSettled(n, i) ==
  /\ i \in DOMAIN pcs[n]
  /\ pcs[n][i].chain # << >>
  /\ Head(pcs[n][i].chain).op = "setRemoteDescription"
  /\ ~Head(pcs[n][i].chain).aw
  /\ LET pc == pcs[n][i]
         o == Head(pc.chain)
         done == IF NativeAllows(pc, o) THEN NativeApply(pc, o, i) ELSE pc
     IN pcs' = [pcs EXCEPT ![n][i] = [done EXCEPT !.chain = Tail(pc.chain)]]
  /\ UNCHANGED << connectionState, remoteStream, peerConnections, localStream, channel,
                  pendingCandidates, sent, unsubscribes, cleanups, streamCalls, iceSeen,
                  faults, events, limit, ignored, inbox >>

\* ------------------------------------------------------ handleIceCandidate
\* lines 223-233: every connection of the Map that has a remote description
\* is given the candidate; the call is awaited inside the per-connection
\* callback only, so each call is just queued here.
HandleIceCandidate(n, cand) ==
  pcs' = [pcs EXCEPT ![n] =
            [k \in DOMAIN pcs[n] |->
               IF k \in TablePCs(n) /\ pcs[n][k].remoteDescription # NoDesc
               THEN [pcs[n][k] EXCEPT !.chain = Append(@, Op("addIceCandidate", NoDesc, cand, FALSE))]
               ELSE pcs[n][k]]]

\* An addIceCandidate of line 227 settles; a rejection is caught and logged
\* (lines 228-230).
CandidateSettled(n, i) ==
  /\ i \in DOMAIN pcs[n]
  /\ pcs[n][i].chain # << >>
  /\ Head(pcs[n][i].chain).op = "addIceCandidate"
  /\ ~Head(pcs[n][i].chain).aw
  /\ LET pc == pcs[n][i]
         o == Head(pc.chain)
         done == IF NativeAllows(pc, o) THEN NativeApply(pc, o, i) ELSE pc
     IN pcs' = [pcs EXCEPT ![n][i] = [done EXCEPT !.chain = Tail(pc.chain)]]
  /\ UNCHANGED << connectionState, remoteStream, peerConnections, localStream, channel,
                  pendingCandidates, sent, unsubscribes, cleanups, streamCalls, iceSeen,
                  faults, events, limit, ignored, inbox >>

\* ------------------------------------------------- the signaling handler
\* IceCandidateCase with the candidate of a sender that has no connection
\* dropped instead of queued.
IceCandidateCaseDropsUnknown(n, m) ==
  LET i == peerConnections[n][m.from]
      cand == [uid |-> iceSeen[n] + 1, from |-> m.from, bad |-> m.bad, early |-> (i = 0)]
  IN /\ iceSeen[n] < limit.ice
     /\ iceSeen' = [iceSeen EXCEPT ![n] = @ + 1]
     /\ IF i # 0 /\ pcs[n][i].remoteDescription # NoDesc
        THEN /\ HandleIceCandidate(n, cand)
             /\ UNCHANGED pendingCandidates
        ELSE IF i = 0
        THEN UNCHANGED << pcs, pendingCandidates >>
        ELSE /\ pendingCandidates' = [pendingCandidates EXCEPT ![n][m.from] = Append(@, cand)]
             /\ pcs' = [pcs EXCEPT ![n] =
                          [k \in DOMAIN pcs[n] |->
                             IF pcs[n][k].linked /\ pcs[n][k].peer = m.from
                             THEN [pcs[n][k] EXCEPT !.arr = Append(@, cand)]
                             ELSE pcs[n][k]]]
     /\ UNCHANGED << connectionState, remoteStream, peerConnections, localStream, channel,
                     sent, unsubscribes, cleanups, streamCalls, faults, events, limit, ignored >>

\* lines 279-290, the 'ice-candidate' case.  The payload is a new object
\* (uid; early records that the Map held no connection for the sender when it
\* came); it is applied when the sender's connection has a remote description
\* and pushed onto the sender's array otherwise.  A push onto an existing
\* array is seen by every async function that iterates that array.
IceCandidateCase(n, m) ==
  LET i == peerConnections[n][m.from]
      cand == [uid |-> iceSeen[n] + 1, from |-> m.from, bad |-> m.bad, early |-> (i = 0)]
  IN /\ iceSeen[n] < limit.ice
     /\ iceSeen' = [iceSeen EXCEPT ![n] = @ + 1]
     /\ IF i # 0 /\ pcs[n][i].remoteDescription # NoDesc
        THEN /\ HandleIceCandidate(n, cand)
             /\ UNCHANGED pendingCandidates
        ELSE /\ pendingCandidates' = [pendingCandidates EXCEPT ![n][m.from] = Append(@, cand)]
             /\ pcs' = [pcs EXCEPT ![n] =
                          [k \in DOMAIN pcs[n] |->
                             IF pcs[n][k].linked /\ pcs[n][k].peer = m.from
                             THEN [pcs[n][k] EXCEPT !.arr = Append(@, cand)]
                             ELSE pcs[n][k]]]
     /\ UNCHANGED << connectionState, remoteStream, peerConnections, localStream,
                     channel, sent, unsubscribes, cleanups, streamCalls, faults, events,
                     limit, ignored >>

\* OnSignaling without the check of line 261.
OnSignalingNoEchoCheck(n, m) ==
  IF m.to # NoTo /\ m.to # n THEN Ignore(n, "other")
  ELSE CASE m.type = "offer" ->
              HandleOffer(n, [type |-> "offer", sdp |-> m.sdp, re |-> 0], m.from)
         [] m.type = "answer" ->
              HandleAnswer(n, [type |-> "answer", sdp |-> m.sdp, re |-> m.re], m.from)
         [] m.type = "ice-candidate" -> IceCandidateCase(n, m)

\* OnSignaling with the check of line 265 made for offers and answers only.
OnSignalingBuffersForOthers(n, m) ==
  IF m.from = n THEN Ignore(n, "self")
  ELSE IF m.type # "ice-candidate" /\ m.to # NoTo /\ m.to # n THEN Ignore(n, "other")
  ELSE CASE m.type = "offer" ->
              HandleOffer(n, [type |-> "offer", sdp |-> m.sdp, re |-> 0], m.from)
         [] m.type = "answer" ->
              HandleAnswer(n, [type |-> "answer", sdp |-> m.sdp, re |-> m.re], m.from)
         [] m.type = "ice-candidate" -> IceCandidateCase(n, m)

\* lines 256-292: the callback of channel.on('broadcast', {event: 'signaling'}).
OnSignaling(n, m) ==
  IF m.from = n THEN Ignore(n, "self")                           \* line 261
  ELSE IF m.to # NoTo /\ m.to # n THEN Ignore(n, "other")        \* line 265
  ELSE CASE m.type = "offer" ->
              HandleOffer(n, [type |-> "offer", sdp |-> m.sdp, re |-> 0], m.from)
         [] m.type = "answer" ->
              HandleAnswer(n, [type |-> "answer", sdp |-> m.sdp, re |-> m.re], m.from)
         [] m.type = "ice-candidate" -> IceCandidateCase(n, m)

\* What the other members of the room may broadcast, as seen by H: addressed
\* to H or to nobody by another peer, addressed to a third party, or carrying
\* H's own identity as sender.
Routes ==
  { << "V1", "H" >>, << "V2", "H" >>, << "V1", NoTo >>,
    << "V1", "V2" >>, << "H", "H" >>, << "H", NoTo >> }

EnvMsgs ==
  { Msg("offer", r[1], r[2], 1, 0, FALSE) : r \in Routes }
  \cup { Msg("answer", r[1], r[2], 1, re, FALSE) : r \in Routes, re \in 1..MaxPCs }
  \cup { Msg("ice-candidate", r[1], r[2], 0, 0, b) : r \in Routes, b \in BOOLEAN }

\* The channel delivers a broadcast of another member to a subscribed node.
Receive(n, m) ==
  /\ channel[n]
  /\ OnSignaling(n, m)
  /\ UNCHANGED inbox

\* The channel delivers to a subscribed node a message the other node has
\* published, once, in any order.
Deliver(n, m) ==
  /\ channel[n]
  /\ BagIn(m, inbox[n])
  /\ inbox' = [inbox EXCEPT ![n] = @ (-) SetToBag({m})]
  /\ OnSignaling(n, m)

\* ---------------------------------------------------------------- cleanup
\* pc.close(): the connection is closed for good; the operations queued on it
\* never settle, so an async function awaiting one of them never resumes.
Close(pc) ==
  [pc EXCEPT !.closed = TRUE, !.signalingState = "closed", !.conn = "closed",
             !.chain = << >>,
             !.pos = IF @ \in {"done", "unsent", "failed"} THEN @ ELSE "hung",
             !.arr = << >>, !.idx = 0, !.linked = FALSE]

\* Cleanup with supabase.removeChannel called whether or not channelRef.current
\* is set.
CleanupUnguarded(n) ==
  /\ cleanups[n] < limit.cleanups
  /\ cleanups' = [cleanups EXCEPT ![n] = @ + 1]
  /\ pcs' = [pcs EXCEPT ![n] =
               [k \in DOMAIN pcs[n] |->
                  IF k \in TablePCs(n) THEN Close(pcs[n][k])
                  ELSE [pcs[n][k] EXCEPT !.linked = FALSE]]]
  /\ peerConnections' = [peerConnections EXCEPT ![n] = [p \in Ids |-> 0]]
  /\ unsubscribes' = [unsubscribes EXCEPT ![n] = @ + 1]
  /\ channel' = [channel EXCEPT ![n] = FALSE]
  /\ remoteStream' = [remoteStream EXCEPT ![n] = "null"]
  /\ connectionState' = [connectionState EXCEPT ![n] = "idle"]
  /\ pendingCandidates' = [pendingCandidates EXCEPT ![n] = [p \in Ids |-> << >>]]
  /\ UNCHANGED << localStream, sent, streamCalls, iceSeen, faults, events, limit, ignored, inbox >>

\* lines 235-249.
Cleanup(n) ==
  /\ cleanups[n] < limit.cleanups
  /\ cleanups' = [cleanups EXCEPT ![n] = @ + 1]
  /\ pcs' = [pcs EXCEPT ![n] =
               [k \in DOMAIN pcs[n] |->
                  IF k \in TablePCs(n) THEN Close(pcs[n][k])
                  ELSE [pcs[n][k] EXCEPT !.linked = FALSE]]]
  /\ peerConnections' = [peerConnections EXCEPT ![n] = [p \in Ids |-> 0]]
  /\ IF channel[n]
     THEN /\ unsubscribes' = [unsubscribes EXCEPT ![n] = @ + 1]
          /\ channel' = [channel EXCEPT ![n] = FALSE]
     ELSE UNCHANGED << unsubscribes, channel >>
  /\ remoteStream' = [remoteStream EXCEPT ![n] = "null"]
  /\ connectionState' = [connectionState EXCEPT ![n] = "idle"]
  /\ pendingCandidates' = [pendingCandidates EXCEPT ![n] = [p \in Ids |-> << >>]]
  /\ UNCHANGED << localStream, sent, streamCalls, iceSeen, faults, events, limit, ignored, inbox >>

\* --------------------------------------------------------- setLocalStream
\* lines 48-75.
SetLocalStream(n, stream) ==
  /\ streamCalls[n] < limit.streams
  /\ streamCalls' = [streamCalls EXCEPT ![n] = @ + 1]
  /\ localStream' = [localStream EXCEPT ![n] = stream]
  /\ pcs' = [pcs EXCEPT ![n] =
               [k \in DOMAIN pcs[n] |->
                  IF k \in TablePCs(n)
                  THEN [pcs[n][k] EXCEPT !.senders = Reconcile(@, stream)]
                  ELSE pcs[n][k]]]
  /\ UNCHANGED << connectionState, remoteStream, peerConnections, channel,
                  pendingCandidates, sent, unsubscribes, cleanups, iceSeen, faults,
                  events, limit, ignored, inbox >>

\* ------------------------------------------------------------ native events
\* lines 80-93, pc.onicecandidate: a connection with a local description
\* gathers a candidate, which is published when channelRef.current is set.
OnIceCandidate(n, i) ==
  /\ events[n] < limit.events
  /\ events' = [events EXCEPT ![n] = @ + 1]
  /\ i \in DOMAIN pcs[n]
  /\ ~pcs[n][i].closed
  /\ pcs[n][i].localDescription # NoDesc
  /\ ~pcs[n][i].gathered
  /\ pcs' = [pcs EXCEPT ![n][i].gathered = TRUE]
  /\ IF channel[n]
     THEN Publish(n, Msg("ice-candidate", n, pcs[n][i].peer, 0, 0, FALSE))
     ELSE UNCHANGED << sent, inbox >>
  /\ UNCHANGED << connectionState, remoteStream, peerConnections, localStream, channel,
                  pendingCandidates, unsubscribes, cleanups, streamCalls, iceSeen,
                  faults, limit, ignored >>

\* The connectionState values a live connection can move to.
ConnectionStateNext(pc) ==
  CASE pc.conn = "new" ->
         IF pc.localDescription # NoDesc /\ pc.remoteDescription # NoDesc
         THEN {"connecting"} ELSE {}
    [] pc.conn = "connecting" -> {"connected", "failed"}
    [] pc.conn = "connected" -> {"disconnected", "failed"}
    [] pc.conn = "disconnected" -> {"connected", "failed"}
    [] OTHER -> {}

\* OnConnectionStateChange with a 'failed' connection taking every session
\* down with it.
OnConnectionStateChangeTearsDown(n, i, st) ==
  /\ events[n] < limit.events
  /\ events' = [events EXCEPT ![n] = @ + 1]
  /\ i \in DOMAIN pcs[n]
  /\ ~pcs[n][i].closed
  /\ st \in ConnectionStateNext(pcs[n][i])
  /\ pcs' = [pcs EXCEPT ![n] =
               [k \in DOMAIN pcs[n] |->
                  IF st = "failed" /\ k \in TablePCs(n) THEN Close(pcs[n][k])
                  ELSE IF k = i THEN [pcs[n][k] EXCEPT !.conn = st]
                  ELSE pcs[n][k]]]
  /\ connectionState' = [connectionState EXCEPT ![n] = st]
  /\ UNCHANGED << remoteStream, peerConnections, localStream, channel, pendingCandidates,
                  sent, unsubscribes, cleanups, streamCalls, iceSeen, faults,
                  limit, ignored, inbox >>

\* lines 95-110, pc.onconnectionstatechange.
OnConnectionStateChange(n, i, st) ==
  /\ events[n] < limit.events
  /\ events' = [events EXCEPT ![n] = @ + 1]
  /\ i \in DOMAIN pcs[n]
  /\ ~pcs[n][i].closed
  /\ st \in ConnectionStateNext(pcs[n][i])
  /\ pcs' = [pcs EXCEPT ![n][i].conn = st]
  /\ connectionState' = [connectionState EXCEPT ![n] = st]
  /\ UNCHANGED << remoteStream, peerConnections, localStream, channel, pendingCandidates,
                  sent, unsubscribes, cleanups, streamCalls, iceSeen, faults,
                  limit, ignored, inbox >>

\* lines 112-119, pc.ontrack with a stream attached.
OnTrack(n, i) ==
  /\ events[n] < limit.events
  /\ events' = [events EXCEPT ![n] = @ + 1]
  /\ i \in DOMAIN pcs[n]
  /\ ~pcs[n][i].closed
  /\ pcs[n][i].remoteDescription # NoDesc
  /\ remoteStream[n] = "null"
  /\ remoteStream' = [remoteStream EXCEPT ![n] = "remote"]
  /\ UNCHANGED << connectionState, peerConnections, pcs, localStream, channel,
                  pendingCandidates, sent, unsubscribes, cleanups, streamCalls, iceSeen,
                  faults, limit, ignored, inbox >>

\* ------------------------------------------------------------ specification
\* One orchestrator, H, in a room whose other members broadcast anything.
Local == "H"

\* The bounds of a run are part of its initial state, so that each
\* specification explores the part of the behaviour its claims are about.
Init ==
  /\ Start
  /\ limit = [pcs |-> MaxPCs, ice |-> MaxIce, chain |-> MaxChain, faults |-> MaxFaults,
              cleanups |-> MaxCleanups, streams |-> 0, events |-> 0,
              ignored |-> 0]

InitEvents ==
  /\ Start
  /\ limit = [pcs |-> MaxPCs, ice |-> EvMaxIce, chain |-> EvMaxChain, faults |-> MaxFaults,
              cleanups |-> EvMaxCleanups, streams |-> 0, events |-> MaxEvents,
              ignored |-> 0]

InitRouting ==
  /\ Start
  /\ limit = [pcs |-> MaxPCs, ice |-> EvMaxIce, chain |-> EvMaxChain, faults |-> MaxFaults,
              cleanups |-> EvMaxCleanups, streams |-> 0, events |-> 0,
              ignored |-> MaxIgnored]

InitMedia ==
  /\ Start
  /\ limit = [pcs |-> MaxPCs, ice |-> 0, chain |-> EvMaxChain, faults |-> MaxFaults,
              cleanups |-> EvMaxCleanups, streams |-> MaxStreams, events |-> 0,
              ignored |-> 0]

\* The public calls and the channel's deliveries.
Calls(n) ==
  \/ \E v \in Ids \ {n} : CreateOffer(n, v)
  \/ \E m \in EnvMsgs : Receive(n, m)
  \/ Cleanup(n)

\* A queued native operation on descriptions settles and the function
\* awaiting it, if any, runs on.
DescSettles(n) ==
  \/ \E i \in 1..limit.pcs : CreateOfferResolved(n, i)
  \/ \E i \in 1..limit.pcs : OfferLocalSet(n, i)
  \/ \E i \in 1..limit.pcs : OfferRemoteSet(n, i)
  \/ \E i \in 1..limit.pcs : AnswerCreated(n, i)
  \/ \E i \in 1..limit.pcs : AnswerLocalSet(n, i)
  \/ \E i \in 1..limit.pcs : AwaitRejected(n, i)
  \/ \E i \in 1..limit.pcs : AnswerSettled(n, i)

\* A queued addIceCandidate settles.
CandSettles(n) ==
  \/ \E i \in 1..limit.pcs : FlushApplied(n, i)
  \/ \E i \in 1..limit.pcs : CandidateSettled(n, i)

Settles(n) == DescSettles(n) \/ CandSettles(n)

\* The native events the hook listens to.
NativeEvents(n) ==
  \/ \E i \in 1..limit.pcs : OnIceCandidate(n, i)
  \/ \E i \in 1..limit.pcs, st \in PeerConnectionState : OnConnectionStateChange(n, i, st)
  \/ \E i \in 1..limit.pcs : OnTrack(n, i)

\* Negotiation: calls, deliveries and native completions.
Next == Calls(Local) \/ Settles(Local)

Spec == Init /\ [][Next]_vars

\* Negotiation with the native events, under smaller bounds for candidates.
NextEvents == Calls(Local) \/ Settles(Local) \/ NativeEvents(Local)

SpecEvents == InitEvents /\ [][NextEvents]_vars

\* The local media binding: the UI hands a stream, or none, to the hook.
Media(n) == \E stream \in Streams \cup {NoStream} : SetLocalStream(n, stream)

\* Negotiation with the local stream changing, in a room where no candidate
\* is broadcast.
NextMedia == Calls(Local) \/ DescSettles(Local) \/ Media(Local)

SpecMedia == InitMedia /\ [][NextMedia]_vars

\* Negotiation with the handler's ignored messages counted.
SpecRouting == InitRouting /\ [][Next]_vars

\* Two orchestrators in one room: the host and one viewer, each running the
\* hook, the channel carrying what one publishes to the other.  No native
\* operation is made to fail and nobody cleans up.
InitPair ==
  /\ Start
  /\ limit = [pcs |-> PairMaxPCs, ice |-> PairMaxIce, chain |-> MaxChain, faults |-> 0,
              cleanups |-> 0, streams |-> 0, events |-> PairMaxEvents,
              ignored |-> 0]

\* The channel hands a node one of the messages waiting for it.
Deliveries(n) == \E m \in BagToSet(inbox[n]) : Deliver(n, m)

\* A queued native operation of node n settles, none rejected by force.
PairSettles(n) ==
  \/ \E i \in 1..limit.pcs : CreateOfferResolved(n, i)
  \/ \E i \in 1..limit.pcs : OfferLocalSet(n, i)
  \/ \E i \in 1..limit.pcs : OfferRemoteSet(n, i)
  \/ \E i \in 1..limit.pcs : FlushApplied(n, i)
  \/ \E i \in 1..limit.pcs : AnswerCreated(n, i)
  \/ \E i \in 1..limit.pcs : AnswerLocalSet(n, i)
  \/ \E i \in 1..limit.pcs : AnswerSettled(n, i)
  \/ \E i \in 1..limit.pcs : CandidateSettled(n, i)

\* A connection of node n gathers its candidate.
Gathers(n) == \E i \in 1..limit.pcs : OnIceCandidate(n, i)

NextPair ==
  \/ \E v \in Nodes \ {Local} : CreateOffer(Local, v)
  \/ \E n \in Nodes : Deliveries(n)
  \/ \E n \in Nodes : PairSettles(n)
  \/ \E n \in Nodes : Gathers(n)

\* The event loop runs every continuation that is ready and the channel
\* delivers every message it holds; when the host calls createOffer and when
\* a connection gathers a candidate is left open.
SpecPair ==
  /\ InitPair
  /\ [][NextPair]_vars
  /\ \A n \in Nodes : WF_vars(Deliveries(n))
  /\ \A n \in Nodes : WF_vars(PairSettles(n))

\* ------------------------------------------------------ vocabulary of the claims
\* The connection the Map of node n holds for peer p (0: none).
Session(n, p) == peerConnections[n][p]

HasRemote(n, p) ==
  Session(n, p) # 0 /\ pcs[n][Session(n, p)].remoteDescription # NoDesc

\* The candidates of the native calls queued on a connection.
ChainCands(pc) ==
  { pc.chain[k].cand : k \in { j \in DOMAIN pc.chain : pc.chain[j].op = "addIceCandidate" } }

\* How many times candidate object u has been applied to the connections of n.
Occurrences(seq, u) == Cardinality({ k \in DOMAIN seq : seq[k] = u })
Applications(n, u) ==
  SeqSum([i \in DOMAIN pcs[n] |-> Occurrences(pcs[n][i].applied, u)])

\* Every candidate object node n holds anywhere.
KnownCands(n) ==
  UNION { Range(pendingCandidates[n][p]) : p \in Ids }
  \cup UNION { Range(pcs[n][i].applied) \cup Range(pcs[n][i].arr) \cup ChainCands(pcs[n][i])
               : i \in DOMAIN pcs[n] }

\* An un-awaited setRemoteDescription(answer) is queued on p's connection.
AnswerInFlight(n, p) ==
  /\ Session(n, p) # 0
  /\ \E k \in DOMAIN pcs[n][Session(n, p)].chain :
       /\ pcs[n][Session(n, p)].chain[k].op = "setRemoteDescription"
       /\ ~pcs[n][Session(n, p)].chain[k].aw

\* ------------------------------------------------------------------- C1
\* C1 (answer guard): a handleAnswer(answer, P) that arrives while the
\* remote-description assignment started by an earlier handleAnswer for P is
\* still in flight is a no-op: it changes nothing and starts no second
\* assignment.
C1_SecondAnswerIsNoOp ==
  [][ \A p \in Ids, re \in 1..MaxPCs :
        (AnswerInFlight(Local, p)
           /\ HandleAnswer(Local, [type |-> "answer", sdp |-> 1, re |-> re], p))
        => UNCHANGED vars ]_vars

\* ------------------------------------------------------------------- C2
\* C2 (pending-queue transience): outside a flush in progress (and leaving
\* aside sessions whose negotiation errored), no peer has both a session with
\* a remote description and a non-empty Pending-Candidate Queue.
C2_QueueEmptyOnceRemoteSet ==
  \A p \in Ids :
    (HasRemote(Local, p)
       /\ pcs[Local][Session(Local, p)].pos \notin {"addIceCandidate", "failed"})
    => pendingCandidates[Local][p] = << >>

\* ------------------------------------------------------------------- C3
\* C3 (early-candidate absorption): a well-formed candidate that came before
\* any session existed for its sender is never applied more than once, and it
\* has been applied once a handleOffer for that sender has run to its end.
C3_EarlyCandidateExactlyOnce ==
  \A u \in KnownCands(Local) :
    (u.early /\ ~u.bad) =>
      /\ Applications(Local, u) <= 1
      /\ (\E i \in DOMAIN pcs[Local] :
             /\ pcs[Local][i].peer = u.from
             /\ pcs[Local][i].role = "responder"
             /\ ~pcs[Local][i].closed
             /\ pcs[Local][i].pos \in {"done", "unsent"})
         => Applications(Local, u) >= 1

\* ------------------------------------------------------------------- C4
\* C4 (session uniqueness with teardown): every native connection that is
\* still open is the one the Session Table holds for its peer.
C4_OpenConnectionIsInTable ==
  \A i \in DOMAIN pcs[Local] :
    ~pcs[Local][i].closed => Session(Local, pcs[Local][i].peer) = i

\* ------------------------------------------------------------------- C5
\* C5 (candidate addressing): a candidate received from peer P is handed only
\* to the session for P.
C5_CandidateOnlyToItsSender ==
  \A i \in DOMAIN pcs[Local] :
    \A u \in Range(pcs[Local][i].applied) \cup ChainCands(pcs[Local][i]) :
      u.from = pcs[Local][i].peer

\* ------------------------------------------------------------------- C6
\* C6 (cleanup at any point): after cleanup(), and until the next public call,
\* every native connection is closed, the Session Table and the
\* Pending-Candidate Queue are empty and the aggregate state is idle, also
\* once the operations that were suspended have run on.
AfterCleanup(n) == cleanups[n] >= 1 /\ ~channel[n] /\ TableKeys(n) = {}

C6_CleanupReleasesEverything ==
  AfterCleanup(Local) =>
    /\ \A i \in DOMAIN pcs[Local] : pcs[Local][i].closed
    /\ \A p \in Ids : pendingCandidates[Local][p] = << >>
    /\ connectionState[Local] = "idle"

\* ------------------------------------------------------------------- C7
\* The state cleanup() leaves behind.
CleanedUp(n) ==
  /\ ~channel[n]
  /\ TableKeys(n) = {}
  /\ \A p \in Ids : pendingCandidates[n][p] = << >>
  /\ connectionState[n] = "idle"
  /\ remoteStream[n] = "null"

\* C7 (cleanup idempotence): every cleanup() leaves the Session Table and the
\* Pending-Candidate Queue empty and the subscription released exactly once;
\* a cleanup() called in the state a cleanup() left changes nothing (but the
\* count of calls) and does not unsubscribe again.
C7_CleanupIdempotent ==
  [][ Cleanup(Local) =>
        /\ CleanedUp(Local)'
        /\ unsubscribes'[Local] = 1
        /\ (cleanups[Local] >= 1 /\ CleanedUp(Local)) =>
             UNCHANGED << connectionState, remoteStream, peerConnections, pcs, localStream,
                          channel, pendingCandidates, sent, unsubscribes >> ]_vars

\* A second cleanup() has run after a first one that had a session and a
\* queued candidate to drop.
C7_Witness ==
  /\ cleanups[Local] = 2
  /\ unsubscribes[Local] = 1
  /\ CleanedUp(Local)
  /\ iceSeen[Local] >= 1
  /\ \E i \in DOMAIN pcs[Local] : pcs[Local][i].closed

\* ------------------------------------------------------------------- C8
\* C8 (peer failure isolation): a negotiation failure (the catch of createOffer
\* or handleOffer) or a native 'failed' transition on one session leaves the
\* Session Table and every other connection exactly as they were.
C8_FailureIsolation ==
  [][ \A i \in DOMAIN pcs[Local] :
        (AwaitRejected(Local, i) \/ OnConnectionStateChange(Local, i, "failed"))
        => /\ peerConnections' = peerConnections
           /\ \A k \in DOMAIN pcs[Local] \ {i} : pcs'[Local][k] = pcs[Local][k] ]_vars

\* V1's session has gone 'failed' natively while V2's session is held, open
\* and negotiated.
C8_Witness ==
  \E i, k \in DOMAIN pcs[Local] :
    /\ pcs[Local][i].peer = "V1" /\ pcs[Local][i].conn = "failed"
    /\ connectionState[Local] = "failed"
    /\ Session(Local, "V2") = k
    /\ ~pcs[Local][k].closed
    /\ pcs[Local][k].localDescription # NoDesc

Published(n, i) ==
  IF pcs[n][i].role = "initiator"
  THEN Msg("offer", n, pcs[n][i].peer, i, 0, FALSE)
  ELSE Msg("answer", n, pcs[n][i].peer, i, pcs[n][i].remoteDescription.sdp, FALSE)

\* C10 (offer/answer publication): a createOffer(V) that ran to its end with
\* the subscription active has published exactly one offer from the local
\* identity to V, a handleOffer(offer, H) exactly one answer from the local
\* identity to H; a call that has not, or that failed, has published none; and
\* no other offer or answer is published.
C10_OneOfferOrAnswerPerCall ==
  /\ \A i \in DOMAIN pcs[Local] :
       CopiesIn(Published(Local, i), sent[Local])
         = IF pcs[Local][i].pos = "done" THEN 1 ELSE 0
  /\ \A m \in BagToSet(sent[Local]) :
       m.type \in {"offer", "answer"}
         => \E i \in DOMAIN pcs[Local] : m = Published(Local, i)

\* One createOffer and one handleOffer have both run to their end.
C10_Witness ==
  \E i, k \in DOMAIN pcs[Local] :
    /\ pcs[Local][i].role = "initiator" /\ pcs[Local][i].pos = "done"
    /\ pcs[Local][k].role = "responder" /\ pcs[Local][k].pos = "done"
    /\ CopiesIn(Published(Local, i), sent[Local]) = 1
    /\ CopiesIn(Published(Local, k), sent[Local]) = 1

\* ------------------------------------------------------------------- C11
\* What a dispatch to handleOffer, handleAnswer or the candidate case could
\* change: the Map, the connections (a new object, a native call queued), the
\* queue, the aggregate state, the count of candidates seen.
Handled == << peerConnections, pcs, pendingCandidates, connectionState, remoteStream,
              sent, iceSeen >>

\* C11 (echo suppression): a delivered message whose `from` is the local
\* identity, of any kind and with any `to`, is not dispatched to a handler and
\* changes neither the Session Table nor the Pending-Candidate Queue.
C11_EchoIsIgnored ==
  [][ \A m \in EnvMsgs :
        (m.from = Local /\ Receive(Local, m)) => UNCHANGED Handled ]_vars

\* Echoes have been delivered and ignored while a session was held.
C11_Witness ==
  /\ ignored[Local].self = MaxIgnored
  /\ ignored[Local].other = 0
  /\ Session(Local, "V1") # 0

\* ------------------------------------------------------------------- C12
\* C12 (address scoping): a delivered message whose `to` is set and is not the
\* local identity is not dispatched to a handler and changes neither the
\* Session Table nor the Pending-Candidate Queue; a candidate addressed to a
\* third party is not buffered.
C12_OthersMailIsIgnored ==
  [][ \A m \in EnvMsgs :
        (m.to # NoTo /\ m.to # Local /\ Receive(Local, m)) => UNCHANGED Handled ]_vars

\* Messages of V1 to V2 have been delivered and ignored: nothing of V1 is
\* buffered and V1 has no session.
C12_Witness ==
  /\ ignored[Local].other = MaxIgnored
  /\ ignored[Local].self = 0
  /\ Session(Local, "V1") = 0
  /\ pendingCandidates[Local]["V1"] = << >>
  /\ Session(Local, "V2") # 0

\* ------------------------------------------------------------------- C13
\* The elements of seq that are in set, in seq's order.
Restrict(seq, set) == SelectSeq(seq, LAMBDA x : x \in set)

\* Connection i's handleOffer leaves its flush loop in this step.
FlushEnds(n, i) ==
  /\ i \in DOMAIN pcs[n]
  /\ OfferRemoteSet(n, i) \/ FlushApplied(n, i)
  /\ pcs'[n][i].pos = "createAnswer"

\* C13 (flush order): when the flush of handleOffer(offer, P) ends, the
\* candidates buffered for P have been applied to its connection in the order
\* in which they were received, each once, with the remote description set and
\* no answer created yet, and P's queue is empty.
C13_FlushInOrder ==
  [][ \A i \in 1..MaxPCs :
        FlushEnds(Local, i) =>
          LET pc == pcs[Local][i]
              after == pcs'[Local][i]
              buffered == IF pc.pos = "setRemoteDescription"
                          THEN pendingCandidates[Local][pc.peer] ELSE pc.arr
          IN /\ pc.linked => pc.arr = pendingCandidates[Local][pc.peer]
             /\ \A k, l \in DOMAIN buffered : k < l => buffered[k].uid < buffered[l].uid
             /\ Restrict(after.applied, Range(buffered)) = buffered
             /\ after.remoteDescription # NoDesc
             /\ after.localDescription = NoDesc
             /\ after.chain # << >> /\ after.chain[Len(after.chain)].op = "createAnswer"
             /\ pendingCandidates'[Local][pc.peer] = << >> ]_vars

\* A handleOffer has run to its end after flushing two candidates that both
\* came before its session existed.
C13_Witness ==
  \E i \in DOMAIN pcs[Local] :
    /\ pcs[Local][i].role = "responder"
    /\ pcs[Local][i].pos = "done"
    /\ Len(pcs[Local][i].applied) = 2
    /\ pcs[Local][i].applied[1].early /\ pcs[Local][i].applied[1].uid = 1
    /\ pcs[Local][i].applied[2].early /\ pcs[Local][i].applied[2].uid = 2
    /\ pendingCandidates[Local][pcs[Local][i].peer] = << >>

\* ------------------------------------------------------------------- C14
\* P's session has its local offer set and no remote description yet.
OfferSentNoRemote(n, p) ==
  /\ Session(n, p) # 0
  /\ pcs[n][Session(n, p)].localDescription.type = "offer"
  /\ pcs[n][Session(n, p)].remoteDescription = NoDesc

\* C14 (guard violation is state-preserving): handleAnswer(answer, P) when P
\* has no session, or P's session is not in the state 'local offer set, no
\* remote description yet', changes neither the Session Table, nor any
\* connection (descriptions, native calls queued), nor the queue, nor the
\* aggregate state, and nothing is started that could raise an error.
C14_GuardedAnswerChangesNothing ==
  [][ \A p \in Ids, re \in 1..MaxPCs :
        (~OfferSentNoRemote(Local, p)
           /\ HandleAnswer(Local, [type |-> "answer", sdp |-> 1, re |-> re], p))
        => UNCHANGED Handled ]_vars

\* An answer has been ignored, and V1's session, created by createOffer, has
\* its answer applied already: the state in which a late answer is ignored.
C14_Witness ==
  /\ ignored[Local].answer = MaxIgnored
  /\ Session(Local, "V1") # 0
  /\ pcs[Local][Session(Local, "V1")].role = "initiator"
  /\ pcs[Local][Session(Local, "V1")].signalingState = "stable"
  /\ pcs[Local][Session(Local, "V1")].remoteDescription # NoDesc

\* ------------------------------------------------------------------- C15
\* The tracks the connection's senders carry.
Sending(pc) == { pc.senders[k].track : k \in DOMAIN pc.senders } \ {NoTrack}

TrackIds(stream) == { t.id : t \in Range(Tracks(stream)) }

\* C15 (stream inheritance is order-independent): while a local stream is
\* active, every session of the Session Table has an outgoing sender for each
\* track of that stream, whether the session was created after the stream was
\* set or before.
C15_SessionCarriesActiveStream ==
  localStream[Local] # NoStream =>
    \A p \in TableKeys(Local) :
      TrackIds(localStream[Local]) \subseteq Sending(pcs[Local][Session(Local, p)])

\* ------------------------------------------------------------------- C16
\* The kinds for which the connection has a sender with a track.
LiveKinds(senders) ==
  { senders[k].kind : k \in { j \in DOMAIN senders : senders[j].track # NoTrack } }

StreamKinds(stream) == { t.kind : t \in Range(Tracks(stream)) }

\* C16 (replace-over-add): setLocalStream with a stream replaces, for every
\* kind of track of the stream for which the session has a sender with a
\* track, that sender's track in place by a track of the stream; senders are
\* added for kinds without such a sender only, so the number of senders is
\* unchanged when every kind of the stream has one.
C16_ReplaceOverAdd ==
  [][ \A stream \in Streams :
        SetLocalStream(Local, stream) =>
          \A i \in TablePCs(Local) :
            LET before == pcs[Local][i].senders
                after == pcs'[Local][i].senders
            IN /\ Len(after) >= Len(before)
               /\ \A k \in DOMAIN before : after[k].kind = before[k].kind
               /\ \A kind \in StreamKinds(stream) \cap LiveKinds(before) :
                    \E k \in DOMAIN before :
                      /\ before[k].track # NoTrack /\ before[k].kind = kind
                      /\ after[k].track \in TrackIds(stream)
               /\ Len(after) - Len(before)
                    <= Cardinality(StreamKinds(stream) \ LiveKinds(before))
               /\ StreamKinds(stream) \subseteq LiveKinds(before)
                    => Len(after) = Len(before) ]_vars

\* A session that carried the audio and video tracks of S1 has had its video
\* sender's track replaced by one of S2 and still has two senders.
C16_Witness ==
  /\ localStream[Local] = "S2"
  /\ \E i \in TablePCs(Local) :
       /\ Len(pcs[Local][i].senders) = 2
       /\ pcs[Local][i].senders[1].track = "a1"
       /\ pcs[Local][i].senders[2].track = "w2"

\* ------------------------------------------------------------------- C17
\* C17 (transport unavailable is a reported hard failure): when a createOffer
\* reaches its publish step with no subscription, no offer is published, the
\* aggregate state becomes 'failed', and the local description stays set on
\* the session, which stays in the Session Table until replaced.
C17_UnsentOfferIsReported ==
  [][ \A i \in 1..MaxPCs :
        (~channel[Local] /\ OfferLocalSet(Local, i))
        => /\ sent' = sent
           /\ connectionState'[Local] = "failed"
           /\ pcs'[Local][i].localDescription.type = "offer"
           /\ peerConnections' = peerConnections ]_vars

\* ------------------------------------------------------------------- C18
\* The addIceCandidate of a malformed candidate settles on connection i in
\* this step, whoever awaits it.
MalformedSettles(n, i) ==
  /\ i \in DOMAIN pcs[n]
  /\ pcs[n][i].chain # << >>
  /\ Head(pcs[n][i].chain).op = "addIceCandidate"
  /\ Head(pcs[n][i].chain).cand.bad
  /\ AwaitRejected(n, i) \/ FlushApplied(n, i) \/ CandidateSettled(n, i)

\* C18 (malformed candidate is non-fatal): when applying a malformed candidate
\* ends, in handleIceCandidate or in the flush of handleOffer, the aggregate
\* state does not become 'failed' and the negotiation is not stopped: a flush
\* goes on to the next buffered candidate or to createAnswer.
C18_MalformedCandidateIsSkipped ==
  [][ \A i \in 1..MaxPCs :
        MalformedSettles(Local, i) =>
          /\ connectionState'[Local] = connectionState[Local]
          /\ pcs'[Local][i].pos # "failed"
          /\ Head(pcs[Local][i].chain).aw
               => pcs'[Local][i].pos \in {"addIceCandidate", "createAnswer"} ]_vars

\* ------------------------------------------------------------------- C19
\* A createOffer or handleOffer for peer p is suspended at one of its awaits.
Suspended(n, p) ==
  \E i \in DOMAIN pcs[n] :
    /\ pcs[n][i].peer = p
    /\ ~pcs[n][i].closed
    /\ pcs[n][i].pos \in {"createOffer", "setLocalDescription", "setRemoteDescription",
                          "addIceCandidate", "createAnswer"}

\* An operation targeting peer p is invoked in this step: createOffer(p), or
\* a message of p that the handler dispatches.
Targets(n, p) ==
  \/ CreateOffer(n, p)
  \/ \E m \in EnvMsgs : m.from = p /\ m.to \in {NoTo, n} /\ Receive(n, m)

\* C19 (per-session serialization): while a createOffer or handleOffer for
\* peer P is suspended, an operation targeting P does not take effect: it
\* creates no connection, replaces no session and starts no native call
\* (buffering a candidate is allowed).
C19_NoEffectWhileSuspended ==
  [][ \A p \in Ids \ {Local} :
        (Suspended(Local, p) /\ Targets(Local, p))
        => /\ peerConnections' = peerConnections
           /\ Len(pcs'[Local]) = Len(pcs[Local])
           /\ \A i \in DOMAIN pcs[Local] : pcs'[Local][i].chain = pcs[Local][i].chain ]_vars

\* ------------------------------------------------------------------- C20
\* C20 (negotiation error handling): when an awaited native step of a
\* createOffer or handleOffer errors, the aggregate state becomes 'failed',
\* nothing is published and no connection is created in its place; from then
\* on that operation takes no further step: it awaits no native call and its
\* offer or answer is never published.
C20_ErrorEndsTheOperation ==
  [][ \A i \in 1..MaxPCs :
        /\ AwaitRejected(Local, i) =>
             /\ connectionState'[Local] = "failed"
             /\ pcs'[Local][i].pos = "failed"
             /\ sent' = sent
             /\ peerConnections' = peerConnections
             /\ Len(pcs'[Local]) = Len(pcs[Local])
        /\ (i \in DOMAIN pcs[Local] /\ pcs[Local][i].pos = "failed") =>
             /\ pcs'[Local][i].pos = "failed"
             /\ \A k \in DOMAIN pcs'[Local][i].chain : ~pcs'[Local][i].chain[k].aw
             /\ CopiesIn(Published(Local, i), sent'[Local]) = 0 ]_vars

\* A handleOffer has failed at createAnswer or at setLocalDescription, after
\* its remote description was set, and nothing was published.
C20_Witness ==
  /\ connectionState[Local] = "failed"
  /\ sent[Local] = EmptyBag
  /\ \E i \in DOMAIN pcs[Local] :
       /\ pcs[Local][i].role = "responder"
       /\ pcs[Local][i].pos = "failed"
       /\ pcs[Local][i].remoteDescription # NoDesc
       /\ pcs[Local][i].applied = << >>
       /\ pendingCandidates[Local][pcs[Local][i].peer] = << >>

\* ------------------------------------------------------------------- C22
\* C22 (aggregate state only follows live sessions): a native
\* connection-state event of a connection that is not the one the Session
\* Table holds for its peer (replaced, or removed by cleanup) does not change
\* the aggregate connection state.
C22_StaleSessionIsMute ==
  [][ \A i \in 1..MaxPCs, st \in PeerConnectionState :
        (OnConnectionStateChange(Local, i, st)
           /\ Session(Local, pcs[Local][i].peer) # i)
        => connectionState'[Local] = connectionState[Local] ]_vars

\* ------------------------------------------------------------------- C23
\* Node n has published to p the offer numbered sdp.
OfferPublished(n, p, sdp) == CopiesIn(Msg("offer", n, p, sdp, 0, FALSE), sent[n]) >= 1

\* C23 (answer matches its offer): an answer applied to a session created by
\* createOffer(P), written by P in response to an offer that was published to
\* P, answers the offer of that very session.
C23_AnswerMatchesItsOffer ==
  \A i \in DOMAIN pcs[Local] :
    LET pc == pcs[Local][i] IN
    (pc.role = "initiator" /\ pc.remoteDescription # NoDesc
       /\ OfferPublished(Local, pc.peer, pc.remoteDescription.re))
    => pc.remoteDescription.re = pc.localDescription.sdp

\* ------------------------------------------------------------------- C24
\* C24 (no stale outgoing media): after setLocalStream(S), no sender of a
\* session of the Session Table carries a track that is not a track of S
\* (none at all when S is none).
C24_NoStaleTrack ==
  [][ \A stream \in Streams \cup {NoStream} :
        SetLocalStream(Local, stream) =>
          \A i \in TablePCs(Local) :
            Sending(pcs'[Local][i]) \subseteq TrackIds(stream) ]_vars

\* Node n's session for p has a local and a remote description.
Described(n, p) ==
  /\ Session(n, p) # 0
  /\ pcs[n][Session(n, p)].localDescription # NoDesc
  /\ pcs[n][Session(n, p)].remoteDescription # NoDesc

\* C21: handshake completion.  With the host and the viewer both subscribed,
\* no native error, no cleanup and every published message eventually
\* delivered, in any order, once the host has called createOffer(V1) the
\* host's session for V1 and V1's session for the host eventually both have a
\* local and a remote description.
C21_HandshakeCompletes ==
  \A v \in Nodes \ {Local} :
    (Session(Local, v) # 0) ~> (Described(Local, v) /\ Described(v, Local))

\* The handshake has completed although a candidate of the host reached the
\* viewer before the offer and a candidate of the viewer reached the host
\* before the answer had been applied.
C21_CompletedDespiteOvertaking ==
  \E v \in Nodes \ {Local} :
    /\ Described(Local, v) /\ Described(v, Local)
    /\ \E k \in DOMAIN pcs[v][Session(v, Local)].applied :
         pcs[v][Session(v, Local)].applied[k].early
    /\ pendingCandidates[Local][v] # << >>
====
